---- MODULE Spec2Model ----
(***************************************************************************)
(* Model of the pest-prediction backend: the fleet scheduler               *)
(* (prediction_loop), the field evaluator (process_field), the soil grid   *)
(* combiner (grid_risk / soil_category) and the solar lookup               *)
(* (get_latest_solar) of src/app.py, over a path-addressed database.       *)
(*                                                                         *)
(* Conventions.                                                            *)
(*  - A JSON scalar is a record [t, n]: t = "num" (a number n), "text" (a  *)
(*    string that float() rejects) or "null" (None).                       *)
(*  - The database stores no null, so a dict read from it is a record in    *)
(*    which an absent key reads as None.                                   *)
(*  - Wall-clock milliseconds are EpochHi * 10^7 + offset; only the offset *)
(*    is kept as an integer, archive keys are the 13-digit decimal strings *)
(*    that str(int(time.time() * 1000)) produces.                          *)
(*  - Moisture is in tenths of a percent; THRESHOLD is a multiple of ten   *)
(*    error units, so that THRESHOLD * 0.7 is exact.                       *)
(*  - datetime.utcnow() of line 262 reads the millisecond that time.time() *)
(*    of line 155 read in the same evaluation.                             *)
(***************************************************************************)
EXTENDS Integers, Sequences, FiniteSets, TLC

\* ------------------------------------------------------------------ bounds
\* clock readings are k * ARCHIVE_GAP and k * ARCHIVE_GAP - 1, k in 0..MaxTick
MaxTick == 2
\* historical logs hold up to LOG_LIMIT + MaxExtraLogs entries
MaxExtraLogs == 1

\* ------------------------------------------------------- program constants
ARCHIVE_GAP == 1500000
LOG_LIMIT == 47
WINDOW_SIZE == 48
DRY_LIMIT == 300
MODERATE_LIMIT == 600
SOLAR_NO_COORDS == 0
SOLAR_FALLBACK == 5
SOLAR_SENTINEL == -999
SOLAR_DAYS == 5
DEFAULT_LAT == 205937
DEFAULT_LON == 789629
EpochHi == 170000
LoDigits == 7

None == [t |-> "null", n |-> 0]
Num(n) == [t |-> "num", n |-> n]
Text == [t |-> "text", n |-> 0]

RiskLevels == {"NORMAL", "WATCH", "WARNING", "HIGH"}
NoRisk == "None"

\* ------------------------------------------------------- pure functions

\* float(x): a number converts, None and a non-numeric string raise.
FloatOk(x) == x.t = "num"

Float(x) == x.n

RECURSIVE Pow10(_)
Pow10(k) == IF k = 0 THEN 1 ELSE 10 * Pow10(k - 1)

RECURSIVE DigitsOf(_, _)
\* the k-digit, zero-padded decimal expansion of n
DigitsOf(n, k) == IF k = 0 THEN <<>> ELSE Append(DigitsOf(n \div 10, k - 1), n % 10)

\* str(int(time.time() * 1000)) for the clock reading EpochHi * 10^7 + off
TimestampStr(off) ==
    DigitsOf(EpochHi + (off \div Pow10(LoDigits)), 6) \o DigitsOf(off % Pow10(LoDigits), LoDigits)

RECURSIVE ParseDigits(_)
ParseDigits(s) == IF s = <<>> THEN 0 ELSE 10 * ParseDigits(SubSeq(s, 1, Len(s) - 1)) + s[Len(s)]

\* int(key), as an offset from EpochHi * 10^7
TimestampInt(key) ==
    (ParseDigits(SubSeq(key, 1, Len(key) - LoDigits)) - EpochHi) * Pow10(LoDigits)
        + ParseDigits(SubSeq(key, Len(key) - LoDigits + 1, Len(key)))

\* order_by_key() on string keys: lexicographic order
RECURSIVE KeyLess(_, _)
KeyLess(a, b) ==
    IF a = <<>> THEN b # <<>>
    ELSE IF b = <<>> THEN FALSE
    ELSE IF a[1] # b[1] THEN a[1] < b[1]
    ELSE KeyLess(Tail(a), Tail(b))

\* a history bucket is the set of its entries, each carrying its key
Keys(bucket) == {e.key : e \in bucket}

\* variant: limit_to_first(1), the smallest key
LastKey_First(bucket) ==
    CHOOSE k \in Keys(bucket) : \A j \in Keys(bucket) : j = k \/ KeyLess(k, j)

\* order_by_key().limit_to_last(1).get(): the greatest key of a non-empty bucket
LastKey(bucket) ==
    CHOOSE k \in Keys(bucket) : \A j \in Keys(bucket) : j = k \/ KeyLess(j, k)

\* variant: set() on the bucket itself, which replaces its content
SetChild_Replace(bucket, entry) == {entry}

\* history_ref.child(timestamp).set(data_entry)
SetChild(bucket, entry) == {e \in bucket : e.key # entry.key} \cup {entry}

\* variant: the boundary reading is still throttled
ArchiveDue_Strict(diff) == diff > ARCHIVE_GAP

\* variant: no throttle
ArchiveDue_Always(diff) == TRUE

\* the archive throttle: a write is due once ARCHIVE_GAP ms have passed
ArchiveDue(diff) == ~(diff < ARCHIVE_GAP)

\* lines 165-185: write when the bucket is empty or the last key is old enough
ShouldArchive(bucket, now) ==
    IF bucket # {}
    THEN ArchiveDue(now - TimestampInt(LastKey(bucket)))
    ELSE TRUE

\* variant: 30.0 itself counts as DRY, 60.0 as MODERATE
soil_category_Le(soil) ==
    IF soil <= DRY_LIMIT THEN "DRY"
    ELSE IF soil <= MODERATE_LIMIT THEN "MODERATE"
    ELSE "WET"

soil_category(soil) ==
    IF soil < DRY_LIMIT THEN "DRY"
    ELSE IF soil < MODERATE_LIMIT THEN "MODERATE"
    ELSE "WET"

\* variant: an unknown farm risk falls back to NORMAL
grid_risk_default(farm_risk, soil) ==
    IF farm_risk \in {"WATCH", "WARNING", "HIGH"}
    THEN (IF farm_risk = "HIGH"
          THEN (IF soil_category(soil) = "DRY" THEN "WARNING" ELSE "HIGH")
          ELSE IF farm_risk = "WATCH"
          THEN (IF soil_category(soil) = "WET" THEN "WARNING"
                ELSE IF soil_category(soil) = "MODERATE" THEN "WATCH" ELSE "NORMAL")
          ELSE (IF soil_category(soil) = "WET" THEN "HIGH"
                ELSE IF soil_category(soil) = "MODERATE" THEN "WARNING" ELSE "WATCH"))
    ELSE "NORMAL"

grid_risk(farm_risk, soil) ==
    LET soil_cat == soil_category(soil) IN
    IF farm_risk = "NORMAL" THEN "NORMAL"
    ELSE IF farm_risk = "WATCH" THEN
        (IF soil_cat = "WET" THEN "WARNING"
         ELSE IF soil_cat = "MODERATE" THEN "WATCH"
         ELSE "NORMAL")
    ELSE IF farm_risk = "WARNING" THEN
        (IF soil_cat = "WET" THEN "HIGH"
         ELSE IF soil_cat = "MODERATE" THEN "WARNING"
         ELSE "WATCH")
    ELSE IF farm_risk = "HIGH" THEN
        (IF soil_cat = "DRY" THEN "WARNING" ELSE "HIGH")
    ELSE NoRisk

\* variant: a fourth tier between WATCH and HIGH
Classify_FourTier(error, threshold) ==
    IF error > threshold THEN "HIGH"
    ELSE IF 10 * error > 9 * threshold THEN "WARNING"
    ELSE IF 10 * error > 7 * threshold THEN "WATCH"
    ELSE "NORMAL"

\* variant: non-strict comparisons
Classify_Ge(error, threshold) ==
    IF error >= threshold THEN "HIGH"
    ELSE IF 10 * error >= 7 * threshold THEN "WATCH"
    ELSE "NORMAL"

\* error > THRESHOLD -> HIGH, error > THRESHOLD * 0.7 -> WATCH, else NORMAL
Classify(error, threshold) ==
    IF error > threshold THEN "HIGH"
    ELSE IF 10 * error > 7 * threshold THEN "WATCH"
    ELSE "NORMAL"

ReasonFor(risk) ==
    IF risk = "HIGH" THEN "High humidity and low solar drying"
    ELSE IF risk = "WATCH" THEN "Elevated risk parameters detected"
    ELSE "Normal conditions"

\* round(error / THRESHOLD, 2), in hundredths (ties to even)
Confidence(error, threshold) ==
    LET q == (100 * error) \div threshold
        r == (100 * error) % threshold
    IN IF 2 * r < threshold THEN q
       ELSE IF 2 * r > threshold THEN q + 1
       ELSE IF q % 2 = 0 THEN q ELSE q + 1

\* the dict process_field hands to set(): one complete record
PredictionRecord(error, threshold, stamp) ==
    [risk |-> Classify(error, threshold),
     anomaly_score |-> error,
     confidence |-> Confidence(error, threshold),
     reason |-> ReasonFor(Classify(error, threshold)),
     lastUpdated |-> stamp]

\* the node users/{u}/live_status/{f}/prediction before any write
NoPrediction ==
    [risk |-> NoRisk, anomaly_score |-> 0, confidence |-> 0, reason |-> "", lastUpdated |-> -1]

\* Python truthiness of a coordinate: None, 0 and 0.0 are falsy
Truthy(x) == (x.t = "num" /\ x.n # 0) \/ x.t = "text"

RECURSIVE solar_lookup_AnyValue(_, _)
\* variant: the sentinel is returned like any other value
solar_lookup_AnyValue(i, replies) ==
    IF i >= SOLAR_DAYS
    THEN [val |-> SOLAR_FALLBACK, dates |-> <<>>]
    ELSE IF replies[i + 1].ok
    THEN [val |-> replies[i + 1].val, dates |-> <<i>>]
    ELSE LET rest == solar_lookup_AnyValue(i + 1, replies)
         IN [val |-> rest.val, dates |-> <<i>> \o rest.dates]

RECURSIVE solar_lookup(_, _)
\* lines 73-90: the loop from i on.  replies[i + 1] is what the service
\* answers for the date i days back: ok = FALSE when the request or the
\* decoding of its answer raises, else the value val.  The result is the
\* value returned and the day offsets queried, in the order of the queries.
solar_lookup(i, replies) ==
    IF i >= SOLAR_DAYS
    THEN [val |-> SOLAR_FALLBACK, dates |-> <<>>]
    ELSE IF replies[i + 1].ok /\ replies[i + 1].val # SOLAR_SENTINEL
    THEN [val |-> replies[i + 1].val, dates |-> <<i>>]
    ELSE LET rest == solar_lookup(i + 1, replies)
         IN [val |-> rest.val, dates |-> <<i>> \o rest.dates]

\* lines 68-90
get_latest_solar(lat, lon, replies) ==
    IF ~Truthy(lat) \/ ~Truthy(lon)
    THEN [val |-> SOLAR_NO_COORDS, dates |-> <<>>]
    ELSE solar_lookup(0, replies)

\* order_by_key().limit_to_last(n) on a bucket listed in key order
LimitToLast(seq, n) ==
    IF Len(seq) <= n THEN seq ELSE SubSeq(seq, Len(seq) - n + 1, Len(seq))

\* entry.get("env", {}).get(k): an absent key reads as None
EntryHasBoth(entry) == entry.temp # None /\ entry.hum # None

RECURSIVE SelectValid(_)
\* the loop of lines 197-203: entries lacking temp or hum are skipped
SelectValid(seq) ==
    IF seq = <<>> THEN <<>>
    ELSE IF EntryHasBoth(Head(seq))
         THEN <<[temperature |-> Float(Head(seq).temp), humidity |-> Float(Head(seq).hum)]>>
                  \o SelectValid(Tail(seq))
         ELSE SelectValid(Tail(seq))

\* float() of a kept entry raises on a non-numeric string
LogsMalformed(seq) ==
    \E i \in 1..Len(seq) : EntryHasBoth(seq[i]) /\ ~(FloatOk(seq[i].temp) /\ FloatOk(seq[i].hum))

\* variant: the gate is off by one
WindowTooSmall_OffByOne(records) == Len(records) < WINDOW_SIZE - 1

\* line 211: the gate on the window size
WindowTooSmall(records) == Len(records) < WINDOW_SIZE

\* records of lines 196-209: the valid logs followed by the live sample
WindowRecords(logs, env_data) ==
    Append(SelectValid(LimitToLast(logs, LOG_LIMIT)),
           [temperature |-> Float(env_data.temp), humidity |-> Float(env_data.hum)])

RECURSIVE SeqSum(_, _)
SeqSum(seq, k) == IF seq = <<>> THEN 0 ELSE Head(seq)[k] + SeqSum(Tail(seq), k)

SeqMin(seq, k) == CHOOSE m \in {seq[i][k] : i \in 1..Len(seq)} : \A i \in 1..Len(seq) : m <= seq[i][k]

SeqMax(seq, k) == CHOOSE m \in {seq[i][k] : i \in 1..Len(seq)} : \A i \in 1..Len(seq) : m >= seq[i][k]

\* summarize(values): (mean, min, max); the mean is kept as the sum over the
\* fixed window length
Summarize(seq, k) == <<SeqSum(seq, k), SeqMin(seq, k), SeqMax(seq, k)>>

\* the feature vector of lines 228-232.  Dew point and dew-point depression
\* are functions of temperature and humidity alone, so the vector is
\* determined by the components kept here.
Features(records, solar) ==
    Summarize(records, "temperature") \o Summarize(records, "humidity") \o <<solar, solar, solar>>

\* ------------------------------------------------------------ the database

UserOrder == <<"u1", "u2">>
FieldOrder == <<"f1", "f2">>
UserIds == {UserOrder[i] : i \in 1..Len(UserOrder)}
FieldIds == {FieldOrder[i] : i \in 1..Len(FieldOrder)}

Env(temp, hum, lat, lon) == [temp |-> temp, hum |-> hum, lat |-> lat, lon |-> lon]

Probe(isdict, raw) == [isdict |-> isdict, raw_moisture |-> raw]

LogEntry(temp, hum) == [temp |-> temp, hum |-> hum]

Repeat(x, n) == [i \in 1..n |-> x]

GoodLog == LogEntry(Num(24), Num(55))
HoleLog == LogEntry(Num(24), None)
TextLog == LogEntry(Text, Num(55))

Kind(env, logs, probes) == [env |-> env, logs |-> logs, probes |-> probes]

Absent == Kind("absent", "none", "none")

\* users/{u}/live_status/{f} for each kind of field the model starts with
FieldData(kind) ==
    [exists |-> kind.env # "absent",
     hasenv |-> kind.env \notin {"absent", "noenv"},
     env |-> IF kind.env = "nohum" THEN Env(Num(25), None, None, None)
             ELSE IF kind.env = "badtemp" THEN Env(Text, Num(50), None, None)
             ELSE IF kind.env = "zerolat" THEN Env(Num(25), Num(50), Num(0), Num(DEFAULT_LON))
             ELSE IF kind.env = "coords" THEN Env(Num(25), Num(50), Num(120000), Num(770000))
             ELSE Env(Num(25), Num(50), None, None),
     probes |-> IF kind.probes = "one" THEN <<Probe(TRUE, Num(450))>>
                ELSE IF kind.probes = "pair" THEN <<Probe(TRUE, Num(299)), Probe(TRUE, Num(600))>>
                ELSE IF kind.probes = "mix"
                     THEN <<Probe(TRUE, Text), Probe(FALSE, None), Probe(TRUE, None),
                            Probe(TRUE, Num(600))>>
                ELSE <<>>]

\* users/{u}/historical_logs/{f}, in key order
FieldLogs(kind) ==
    IF kind.logs = "none" THEN <<>>
    ELSE IF kind.logs = "short" THEN Repeat(GoodLog, LOG_LIMIT - 1)
    ELSE IF kind.logs = "gappy" THEN Append(Repeat(GoodLog, LOG_LIMIT - 1), HoleLog)
    ELSE IF kind.logs = "long" THEN <<HoleLog>> \o Repeat(GoodLog, LOG_LIMIT + MaxExtraLogs - 1)
    ELSE IF kind.logs = "longbad" THEN Append(Repeat(GoodLog, LOG_LIMIT + MaxExtraLogs - 1), HoleLog)
    ELSE IF kind.logs = "badlog" THEN Append(Repeat(GoodLog, LOG_LIMIT - 1), TextLog)
    ELSE Repeat(GoodLog, LOG_LIMIT)

ClockValues(maxTick) ==
    {k * ARCHIVE_GAP - d : k \in 0..maxTick, d \in {0, 1}} \cap Nat

\* the errors a scoring model can report: below, at and above both boundaries
ErrorList(threshold) ==
    <<0, (7 * threshold) \div 10, (7 * threshold) \div 10 + 1, threshold, threshold + 1>>

RECURSIVE Digest(_)
Digest(vec) == IF vec = <<>> THEN 0 ELSE Head(vec) + Digest(Tail(vec))

\* lines 235-237: the scaler and the autoencoder are an opaque, deterministic
\* function from the feature vector to the reconstruction error; model m of
\* the family maps the vector to one of the listed errors
Score(m, features, threshold) ==
    ErrorList(threshold)[((m + Digest(features)) % Len(ErrorList(threshold))) + 1]

VARIABLES
    live_status,        \* users/{u}/live_status/{f}: env, probes
    historical_logs,    \* users/{u}/historical_logs/{f}
    history,            \* users/{u}/history/{f}: the archive bucket
    prediction,         \* users/{u}/live_status/{f}/prediction
    probe_prediction,   \* users/{u}/live_status/{f}/probes/{p}/prediction
    THRESHOLD,          \* loaded once at start
    autoencoder,        \* the scoring model loaded at start (its index in the family)
    call,               \* the last direct call of a pure function, with its result
    pc,                 \* position of the scheduler thread
    ui, fi, pi,         \* loop indexes: user, field, probe
    farm_risk,          \* what process_field returned
    timestamp,          \* process_field local
    solar,              \* process_field local
    day,                \* get_latest_solar loop index
    clock,              \* wall clock as set between passes
    pass_error,         \* where this pass raised: "none", "field", "other"
    visited,            \* fields handed to process_field in this pass
    ev,                 \* trace of the evaluation in progress
    last_features       \* features of the last scored evaluation of each field

dbvars == <<live_status, historical_logs, history, prediction, probe_prediction>>
cfgvars == <<THRESHOLD, autoencoder, call>>
loopvars == <<pc, ui, fi, pi, farm_risk, timestamp, solar, day, clock>>
ghostvars == <<pass_error, visited, ev, last_features>>
vars == <<dbvars, cfgvars, loopvars, ghostvars>>

NoFeatures == <<>>

\* hist0, pred0, feat0: the field's bucket, record and last scored features when
\* the evaluation began; now: its clock reading; arch: what the archive step
\* did ("skipped", "written", "failed"); window: the size of the window it
\* built; out: how it ended
NoEv ==
    [hist0 |-> {}, pred0 |-> NoPrediction, feat0 |-> NoFeatures, now |-> -1,
     arch |-> "none", window |-> -1, out |-> "idle"]

NoCall == [fn |-> "none", farm_risk |-> NoRisk, soil |-> 0, result |-> NoRisk]

CurUser == UserOrder[ui]
CurField == FieldOrder[fi]
CurData == live_status[CurUser][CurField]

\* the state after start-up, for a fleet of the given kinds
InitWith(kinds, thresholds, models, clocks, probe0) ==
    /\ live_status = [u \in UserIds |-> [f \in FieldIds |-> FieldData(kinds[u][f])]]
    /\ historical_logs = [u \in UserIds |-> [f \in FieldIds |-> FieldLogs(kinds[u][f])]]
    /\ history = [u \in UserIds |-> [f \in FieldIds |-> {}]]
    /\ prediction = [u \in UserIds |-> [f \in FieldIds |-> NoPrediction]]
    /\ probe_prediction =
          [u \in UserIds |-> [f \in FieldIds |->
              [p \in 1..Len(FieldData(kinds[u][f]).probes) |-> probe0]]]
    /\ THRESHOLD \in thresholds
    /\ autoencoder \in models
    /\ call = NoCall
    /\ pc = "fetch_users"
    /\ ui = 0 /\ fi = 0 /\ pi = 0
    /\ farm_risk = NoRisk
    /\ timestamp = -1 /\ solar = -1 /\ day = 0
    /\ clock \in clocks
    /\ pass_error = "none"
    /\ visited = {}
    /\ ev = NoEv
    /\ last_features = [u \in UserIds |-> [f \in FieldIds |-> NoFeatures]]

\* ------------------------------------------------------------- the actions

\* an exception leaves process_field and the for loops: the handler of
\* line 315 is the only one around them
Fail(where, trace) ==
    /\ pc' = "except"
    /\ pass_error' = where
    /\ farm_risk' = NoRisk
    /\ timestamp' = -1 /\ solar' = -1 /\ day' = 0
    /\ ev' = trace
    /\ UNCHANGED <<ui, fi, pi, clock, visited, last_features>>

Raise(where) == Fail(where, [ev EXCEPT !.out = IF where = "field" THEN "raised" ELSE @])

\* variant: the caller gets the risk of the field's earlier record
Return_Stale(risk, trace) ==
    /\ pc' = "probes"
    /\ pi' = 1
    /\ farm_risk' = IF risk # NoRisk /\ ev.pred0 # NoPrediction THEN ev.pred0.risk ELSE risk
    /\ timestamp' = -1 /\ solar' = -1 /\ day' = 0
    /\ ev' = trace
    /\ UNCHANGED <<ui, fi, clock, pass_error, visited>>

\* process_field returns to line 290
Return(risk, trace) ==
    /\ pc' = "probes"
    /\ pi' = 1
    /\ farm_risk' = risk
    /\ timestamp' = -1 /\ solar' = -1 /\ day' = 0
    /\ ev' = trace
    /\ UNCHANGED <<ui, fi, clock, pass_error, visited>>

\* line 273: enumerate the users
FetchUsers ==
    /\ pc = "fetch_users"
    /\ \/ /\ pc' = "next_user"
          /\ ui' = 1
          /\ UNCHANGED <<farm_risk, timestamp, solar, day, ev, pass_error>>
          /\ UNCHANGED <<fi, pi, clock, visited, last_features>>
       \/ Raise("other")
    /\ UNCHANGED <<dbvars, cfgvars>>

\* lines 276-284: the next user and its live_status
NextUser ==
    /\ pc = "next_user"
    /\ IF ui > Len(UserOrder)
       THEN /\ pc' = "sleep"
            /\ UNCHANGED <<ui, fi, pi, farm_risk, timestamp, solar, day, clock, ghostvars>>
       ELSE \/ Raise("other")
            \/ /\ IF \A f \in FieldIds : ~live_status[CurUser][f].exists
                  THEN ui' = ui + 1 /\ UNCHANGED <<pc, fi>>
                  ELSE pc' = "next_field" /\ fi' = 1 /\ UNCHANGED ui
               /\ UNCHANGED <<pi, farm_risk, timestamp, solar, day, clock, ghostvars>>
    /\ UNCHANGED <<dbvars, cfgvars>>

\* lines 286-290 and 312-313: the next field of the user
NextField ==
    /\ pc = "next_field"
    /\ IF fi > Len(FieldOrder)
       THEN /\ pc' = "next_user" /\ ui' = ui + 1 /\ fi' = 0
            /\ UNCHANGED <<visited, ev>>
       ELSE IF CurData.exists /\ CurData.hasenv
       THEN /\ pc' = "pf_archive"
            /\ visited' = visited \cup {<<CurUser, CurField>>}
            /\ ev' = [NoEv EXCEPT !.hist0 = history[CurUser][CurField],
                                  !.pred0 = prediction[CurUser][CurField],
                                  !.feat0 = last_features[CurUser][CurField],
                                  !.out = "run"]
            /\ UNCHANGED <<ui, fi>>
       ELSE /\ fi' = fi + 1
            /\ UNCHANGED <<pc, ui, visited, ev>>
    /\ UNCHANGED <<pi, farm_risk, timestamp, solar, day, clock, pass_error, last_features>>
    /\ UNCHANGED <<dbvars, cfgvars>>

\* variant: a skipped archive write ends the evaluation
PfArchive_ReturnsOnSkip(now) ==
    /\ pc = "pf_archive"
    /\ LET env_data == CurData.env
           bucket == history[CurUser][CurField]
           data_entry == [key |-> TimestampStr(now),
                          temperature |-> Float(env_data.temp),
                          humidity |-> Float(env_data.hum),
                          timestamp |-> TimestampStr(now)]
           Proceed(outcome) ==
               /\ pc' = "pf_window"
               /\ timestamp' = now
               /\ ev' = [ev EXCEPT !.arch = outcome, !.now = now]
               /\ UNCHANGED <<ui, fi, pi, farm_risk, solar, day, clock, pass_error, visited,
                              last_features>>
           ArchiveFails ==
               Fail("field", [ev EXCEPT !.out = "raised", !.arch = "failed", !.now = now])
       IN IF env_data.temp = None \/ env_data.hum = None
          THEN Return(NoRisk, [ev EXCEPT !.out = "skipped"])
                 /\ UNCHANGED <<history, last_features>>
          ELSE IF ~FloatOk(env_data.temp) \/ ~FloatOk(env_data.hum)
          THEN Raise("field") /\ UNCHANGED history
          ELSE \/ ArchiveFails /\ UNCHANGED history
               \/ /\ ~ShouldArchive(bucket, now)
                  /\ Return(NoRisk, [ev EXCEPT !.out = "skipped", !.arch = "skipped",
                                               !.now = now])
                  /\ UNCHANGED <<history, last_features>>
               \/ /\ ShouldArchive(bucket, now)
                  /\ \/ /\ history' = [history EXCEPT ![CurUser][CurField] =
                                          SetChild(bucket, data_entry)]
                        /\ Proceed("written")
                     \/ ArchiveFails /\ UNCHANGED history
    /\ UNCHANGED <<live_status, historical_logs, prediction, probe_prediction, cfgvars>>

\* lines 151-185: validate the live sample, then the archive step
PfArchive(now) ==
    /\ pc = "pf_archive"
    /\ LET env_data == CurData.env
           bucket == history[CurUser][CurField]
           data_entry == [key |-> TimestampStr(now),
                          temperature |-> Float(env_data.temp),
                          humidity |-> Float(env_data.hum),
                          timestamp |-> TimestampStr(now)]
           Proceed(outcome) ==
               /\ pc' = "pf_window"
               /\ timestamp' = now
               /\ ev' = [ev EXCEPT !.arch = outcome, !.now = now]
               /\ UNCHANGED <<ui, fi, pi, farm_risk, solar, day, clock, pass_error, visited,
                              last_features>>
           \* the read of line 165 or the write of line 178 / 184 raises
           ArchiveFails ==
               Fail("field", [ev EXCEPT !.out = "raised", !.arch = "failed", !.now = now])
       IN IF env_data.temp = None \/ env_data.hum = None
          THEN Return(NoRisk, [ev EXCEPT !.out = "skipped"])
                 /\ UNCHANGED <<history, last_features>>
          ELSE IF ~FloatOk(env_data.temp) \/ ~FloatOk(env_data.hum)
          THEN Raise("field") /\ UNCHANGED history
          ELSE \/ ArchiveFails /\ UNCHANGED history
               \/ /\ ~ShouldArchive(bucket, now)
                  /\ Proceed("skipped")
                  /\ UNCHANGED history
               \/ /\ ShouldArchive(bucket, now)
                  /\ \/ /\ history' = [history EXCEPT ![CurUser][CurField] =
                                          SetChild(bucket, data_entry)]
                        /\ Proceed("written")
                     \/ ArchiveFails /\ UNCHANGED history
    /\ UNCHANGED <<live_status, historical_logs, prediction, probe_prediction, cfgvars>>

\* lines 187-213: read the logs, build the window, gate on its size
PfWindow ==
    /\ pc = "pf_window"
    /\ LET logs == LimitToLast(historical_logs[CurUser][CurField], LOG_LIMIT)
           records == WindowRecords(historical_logs[CurUser][CurField], CurData.env)
       IN \/ Raise("field")
          \/ IF logs = <<>>
             THEN Return(NoRisk, [ev EXCEPT !.out = "skipped", !.window = 1])
                    /\ UNCHANGED last_features
             ELSE IF LogsMalformed(logs)
             THEN Raise("field")
             ELSE IF WindowTooSmall(records)
             THEN Return(NoRisk, [ev EXCEPT !.out = "skipped", !.window = Len(records)])
                    /\ UNCHANGED last_features
             ELSE /\ pc' = "pf_solar"
                  /\ day' = 1
                  /\ ev' = [ev EXCEPT !.window = Len(records)]
                  /\ UNCHANGED <<ui, fi, pi, farm_risk, timestamp, solar, clock, pass_error,
                                 visited, last_features>>
    /\ UNCHANGED <<dbvars, cfgvars>>

\* lines 222-226 and 68-90: one request of the solar lookup loop
PfSolar(reply) ==
    /\ pc = "pf_solar"
    /\ LET env_data == CurData.env
           given == env_data.lat # None /\ env_data.lon # None
           lat == IF given THEN env_data.lat ELSE Num(DEFAULT_LAT)
           lon == IF given THEN env_data.lon ELSE Num(DEFAULT_LON)
           Done(val) == pc' = "pf_score" /\ solar' = val /\ day' = 0
       IN IF ~Truthy(lat) \/ ~Truthy(lon)
          THEN Done(SOLAR_NO_COORDS)
          ELSE IF reply.ok /\ reply.val # SOLAR_SENTINEL
          THEN Done(reply.val)
          ELSE IF day < SOLAR_DAYS
          THEN day' = day + 1 /\ UNCHANGED <<pc, solar>>
          ELSE Done(SOLAR_FALLBACK)
    /\ UNCHANGED <<ui, fi, pi, farm_risk, timestamp, clock, ghostvars>>
    /\ UNCHANGED <<dbvars, cfgvars>>

\* variant: the record is written field by field, risk first, and the
\* evaluation fails before the rest is written
PfScore_FieldByField(stamp) ==
    /\ pc = "pf_score"
    /\ LET records == WindowRecords(historical_logs[CurUser][CurField], CurData.env)
           error == Score(autoencoder, Features(records, solar), THRESHOLD)
       IN /\ prediction' = [prediction EXCEPT ![CurUser][CurField].risk =
                                Classify(error, THRESHOLD)]
          /\ Raise("field")
    /\ UNCHANGED <<live_status, historical_logs, history, probe_prediction, cfgvars>>

\* lines 228-265: vectorize, score, classify, write the Prediction Record
PfScore(stamp) ==
    /\ pc = "pf_score"
    /\ LET records == WindowRecords(historical_logs[CurUser][CurField], CurData.env)
           features == Features(records, solar)
           error == Score(autoencoder, features, THRESHOLD)
       IN \/ Raise("field") /\ UNCHANGED prediction
          \/ /\ prediction' = [prediction EXCEPT ![CurUser][CurField] =
                                  PredictionRecord(error, THRESHOLD, stamp)]
             /\ last_features' = [last_features EXCEPT ![CurUser][CurField] = features]
             /\ Return(Classify(error, THRESHOLD), [ev EXCEPT !.out = "scored"])
    /\ UNCHANGED <<live_status, historical_logs, history, probe_prediction, cfgvars>>

\* variant: a probe whose moisture does not convert gets a fallback prediction
ProbeStep_Fallback ==
    /\ pc = "probes"
    /\ LET probes == CurData.probes
       IN IF pi > Len(probes)
          THEN /\ pc' = "next_field" /\ fi' = fi + 1 /\ pi' = 0
               /\ farm_risk' = NoRisk
               /\ ev' = NoEv
               /\ UNCHANGED probe_prediction
          ELSE /\ pi' = pi + 1
               /\ UNCHANGED <<pc, fi, farm_risk, ev>>
               /\ LET probe_data == probes[pi]
                      raw_moisture == probe_data.raw_moisture
                      probe_risk_level == grid_risk(farm_risk, Float(raw_moisture))
                  IN IF ~probe_data.isdict \/ raw_moisture = None
                     THEN UNCHANGED probe_prediction
                     ELSE IF ~FloatOk(raw_moisture)
                     THEN probe_prediction' =
                              [probe_prediction EXCEPT ![CurUser][CurField][pi] = "NORMAL"]
                     ELSE IF probe_risk_level = NoRisk
                     THEN UNCHANGED probe_prediction
                     ELSE \/ probe_prediction' =
                                [probe_prediction EXCEPT ![CurUser][CurField][pi] =
                                    probe_risk_level]
                          \/ UNCHANGED probe_prediction
    /\ UNCHANGED <<ui, timestamp, solar, day, clock, pass_error, visited, last_features>>
    /\ UNCHANGED <<live_status, historical_logs, history, prediction, cfgvars>>

\* lines 292-311: one probe of the field.  float() of a non-numeric string
\* and set() of None (the library rejects None) raise ValueError, a failed
\* write raises another Exception: each is caught inside the loop body.
ProbeStep ==
    /\ pc = "probes"
    /\ LET probes == CurData.probes
       IN IF pi > Len(probes)
          THEN /\ pc' = "next_field" /\ fi' = fi + 1 /\ pi' = 0
               /\ farm_risk' = NoRisk
               /\ ev' = NoEv
               /\ UNCHANGED probe_prediction
          ELSE /\ pi' = pi + 1
               /\ UNCHANGED <<pc, fi, farm_risk, ev>>
               /\ LET probe_data == probes[pi]
                      raw_moisture == probe_data.raw_moisture
                      probe_risk_level == grid_risk(farm_risk, Float(raw_moisture))
                  IN IF ~probe_data.isdict \/ raw_moisture = None
                     THEN UNCHANGED probe_prediction
                     ELSE IF ~FloatOk(raw_moisture) \/ probe_risk_level = NoRisk
                     THEN UNCHANGED probe_prediction
                     ELSE \/ probe_prediction' =
                                [probe_prediction EXCEPT ![CurUser][CurField][pi] =
                                    probe_risk_level]
                          \/ UNCHANGED probe_prediction
    /\ UNCHANGED <<ui, timestamp, solar, day, clock, pass_error, visited, last_features>>
    /\ UNCHANGED <<live_status, historical_logs, history, prediction, cfgvars>>

\* variant: the handler lets the thread die
CatchPassError_Dies ==
    /\ pc = "except"
    /\ pc' = "dead"
    /\ UNCHANGED <<ui, fi, pi, farm_risk, timestamp, solar, day, clock, ghostvars>>
    /\ UNCHANGED <<dbvars, cfgvars>>

\* lines 315-318: the handler at the loop boundary
CatchPassError ==
    /\ pc = "except"
    /\ pc' = "sleep"
    /\ UNCHANGED <<ui, fi, pi, farm_risk, timestamp, solar, day, clock, ghostvars>>
    /\ UNCHANGED <<dbvars, cfgvars>>

\* lines 320-321 and 270: sleep, then the next pass
Sleep(wake) ==
    /\ pc = "sleep"
    /\ pc' = "fetch_users"
    /\ clock' = wake
    /\ ui' = 0 /\ fi' = 0 /\ pi' = 0
    /\ pass_error' = "none"
    /\ visited' = {}
    /\ ev' = NoEv
    /\ UNCHANGED <<farm_risk, timestamp, solar, day, last_features>>
    /\ UNCHANGED <<dbvars, cfgvars>>

\* --------------------------------- clean_history of src/cleanup_history.py
\* The utility is a one-shot script of its own: pc runs through "ch_users",
\* "ch_user", "ch_field" and ends in "ch_done", or in "ch_raised" when a
\* database call raised (the script has no handler).

\* variant: every field of the user is taken, live-status entry or not
LiveStatusKeys_All(u) == FieldIds

\* ls_data.keys(): the fields of the user that have a live-status entry
LiveStatusKeys(u) == {f \in FieldIds : live_status[u][f].exists}

ChRaise ==
    /\ pc' = "ch_raised"
    /\ UNCHANGED <<ui, fi>>

\* line 12: enumerate the users
ChUsers ==
    /\ pc = "ch_users"
    /\ call' = [fn |-> "clean_history", before |-> history]
    /\ \/ pc' = "ch_user" /\ ui' = 1 /\ UNCHANGED fi
       \/ ChRaise
    /\ UNCHANGED <<pi, farm_risk, timestamp, solar, day, clock, ghostvars>>
    /\ UNCHANGED <<dbvars, THRESHOLD, autoencoder>>

\* lines 13-16: the next user and its live_status
ChUser ==
    /\ pc = "ch_user"
    /\ IF ui > Len(UserOrder)
       THEN pc' = "ch_done" /\ UNCHANGED <<ui, fi>>
       ELSE \/ ChRaise
            \/ IF LiveStatusKeys(CurUser) = {}
               THEN ui' = ui + 1 /\ UNCHANGED <<pc, fi>>
               ELSE pc' = "ch_field" /\ fi' = 1 /\ UNCHANGED ui
    /\ UNCHANGED <<pi, farm_risk, timestamp, solar, day, clock, ghostvars>>
    /\ UNCHANGED <<dbvars, cfgvars>>

\* lines 18-24: the next key of ls_data; its root history bucket is deleted
\* when the shallow read finds it
ChField ==
    /\ pc = "ch_field"
    /\ IF fi > Len(FieldOrder)
       THEN pc' = "ch_user" /\ ui' = ui + 1 /\ fi' = 0 /\ UNCHANGED history
       ELSE IF CurField \notin LiveStatusKeys(CurUser)
       THEN fi' = fi + 1 /\ UNCHANGED <<pc, ui, history>>
       ELSE \/ ChRaise /\ UNCHANGED history
            \/ /\ fi' = fi + 1
               /\ UNCHANGED <<pc, ui>>
               /\ IF history[CurUser][CurField] # {}
                  THEN history' = [history EXCEPT ![CurUser][CurField] = {}]
                  ELSE UNCHANGED history
    /\ UNCHANGED <<pi, farm_risk, timestamp, solar, day, clock, ghostvars>>
    /\ UNCHANGED <<live_status, historical_logs, prediction, probe_prediction, cfgvars>>

SolarReply(ok, val) == [ok |-> ok, val |-> val]

\* ------------------------------------------------------ the specifications

\* a direct call grid_risk(risk, soil), as a test of the combiner makes it
CallGridRisk(risk, soil) ==
    /\ call' = [fn |-> "grid_risk", farm_risk |-> risk, soil |-> soil,
                result |-> grid_risk(risk, soil)]
    /\ UNCHANGED <<dbvars, THRESHOLD, autoencoder, loopvars, ghostvars>>

Fleet(a, b, c) ==
    [u \in UserIds |-> [f \in FieldIds |->
        IF u = "u1" /\ f = "f1" THEN a
        ELSE IF u = "u1" /\ f = "f2" THEN b
        ELSE IF u = "u2" /\ f = "f1" THEN c
        ELSE Absent]]

\* Spec: the fleet.  Two users, three fields; the wall clock does not move
\* and the solar service is down.
FleetKinds == {Kind("ok", "full", "one"), Kind("ok", "short", "one")}

NoReply == SolarReply(FALSE, 0)

Init ==
    \E a, b, c \in FleetKinds :
        InitWith(Fleet(a, b, c), {10}, {2}, {0}, NoRisk)

Next ==
    \/ FetchUsers
    \/ NextUser
    \/ NextField
    \/ PfArchive(clock)
    \/ PfWindow
    \/ PfSolar(NoReply)
    \/ PfScore(timestamp)
    \/ ProbeStep
    \/ CatchPassError
    \/ Sleep(clock)

Spec == Init /\ [][Next]_vars

\* SpecClock: one field with a full window, any clock reading at each
\* evaluation, every reply of the solar service.
ClockKinds == {Kind("ok", "full", "one")}

SolarReplies == {NoReply, SolarReply(TRUE, SOLAR_SENTINEL), SolarReply(TRUE, 3)}

InitClock ==
    \E a \in ClockKinds :
        InitWith(Fleet(a, Absent, Absent), {10}, {2}, {0}, NoRisk)

NextClock ==
    \/ FetchUsers
    \/ NextUser
    \/ NextField
    \/ \E now \in ClockValues(MaxTick) : PfArchive(now)
    \/ PfWindow
    \/ \E reply \in SolarReplies : PfSolar(reply)
    \/ PfScore(timestamp)
    \/ ProbeStep
    \/ CatchPassError
    \/ Sleep(clock)

SpecClock == InitClock /\ [][NextClock]_vars

\* SpecGate: one field of every shape, every scoring model of the family and
\* two thresholds; the wall clock does not move.
GateKinds ==
    {Kind(e, l, "pair") : e \in {"ok"},
                          l \in {"none", "short", "full", "gappy", "long", "longbad", "badlog"}}
        \cup {Kind(e, "full", "mix") : e \in {"nohum", "badtemp", "zerolat", "noenv"}}

Models == 0..4

InitGate ==
    \E a \in GateKinds :
        InitWith(Fleet(a, Absent, Absent), {10, 20}, Models, {0}, "WATCH")

NextGate ==
    \/ FetchUsers
    \/ NextUser
    \/ NextField
    \/ PfArchive(clock)
    \/ PfWindow
    \/ \E reply \in SolarReplies : PfSolar(reply)
    \/ PfScore(timestamp)
    \/ ProbeStep
    \/ CatchPassError
    \/ Sleep(clock)

SpecGate == InitGate /\ [][NextGate]_vars

\* SpecProbes: the fleet, the first field with probes of every shape (a
\* non-numeric moisture, a probe that is no dict, a probe without moisture, a
\* numeric moisture), every scoring model.
InitProbes ==
    \E b, c \in FleetKinds :
        InitWith(Fleet(Kind("ok", "full", "mix"), b, c), {10}, Models, {0}, NoRisk)

SpecProbes == InitProbes /\ [][Next]_vars

\* SpecSolar: one direct call of get_latest_solar, for every pair of
\* coordinates (absent, zero, non-zero) and every run of replies of the
\* service (an error, the sentinel, a zero value, a non-zero value).
Coordinates == {None, Num(0), Num(DEFAULT_LAT), Num(DEFAULT_LON)}

LookupReplies == SolarReplies \cup {SolarReply(TRUE, 0)}

CallGetLatestSolar(lat, lon, replies) ==
    /\ call' = [fn |-> "get_latest_solar", lat |-> lat, lon |-> lon, replies |-> replies,
                result |-> get_latest_solar(lat, lon, replies)]
    /\ UNCHANGED <<dbvars, THRESHOLD, autoencoder, loopvars, ghostvars>>

InitSolar == InitWith(Fleet(Absent, Absent, Absent), {10}, {0}, {0}, NoRisk)

NextSolar ==
    /\ call = NoCall
    /\ \E lat, lon \in Coordinates, replies \in [1..SOLAR_DAYS -> LookupReplies] :
           CallGetLatestSolar(lat, lon, replies)

SpecSolar == InitSolar /\ [][NextSolar]_vars

\* SpecClean: one run of clean_history on a database in which each of the
\* four field slots holds a history bucket of 0..MaxTick entries, whether or
\* not the slot has a live-status entry.
ArchivedEntry(k) ==
    [key |-> TimestampStr(k * ARCHIVE_GAP), temperature |-> 25, humidity |-> 50,
     timestamp |-> TimestampStr(k * ARCHIVE_GAP)]

Bucket(n) == {ArchivedEntry(k) : k \in 1..n}

CleanKinds == {Kind("ok", "full", "one"), Absent}

InitClean ==
    /\ \E a, b, c \in CleanKinds :
          /\ live_status = [u \in UserIds |-> [f \in FieldIds |->
                                FieldData(Fleet(a, b, c)[u][f])]]
          /\ historical_logs = [u \in UserIds |-> [f \in FieldIds |->
                                    FieldLogs(Fleet(a, b, c)[u][f])]]
    /\ history \in [UserIds -> [FieldIds -> {Bucket(n) : n \in 0..MaxTick}]]
    /\ prediction = [u \in UserIds |-> [f \in FieldIds |-> NoPrediction]]
    /\ probe_prediction =
          [u \in UserIds |-> [f \in FieldIds |->
              [p \in 1..Len(live_status[u][f].probes) |-> NoRisk]]]
    /\ THRESHOLD = 10
    /\ autoencoder = 0
    /\ call = NoCall
    /\ pc = "ch_users"
    /\ ui = 0 /\ fi = 0 /\ pi = 0
    /\ farm_risk = NoRisk
    /\ timestamp = -1 /\ solar = -1 /\ day = 0
    /\ clock = 0
    /\ pass_error = "none"
    /\ visited = {}
    /\ ev = NoEv
    /\ last_features = [u \in UserIds |-> [f \in FieldIds |-> NoFeatures]]

NextClean ==
    \/ ChUsers
    \/ ChUser
    \/ ChField

SpecClean == InitClean /\ [][NextClean]_vars

\* SpecGrid: direct calls of grid_risk over its whole domain.
MaxMoisture == 1000

SoilValues == {m \in 0..MaxMoisture : m % 50 \in {0, 1, 49}}

InitGrid == InitWith(Fleet(Absent, Absent, Absent), {10}, {0}, {0}, NoRisk)

NextGrid == \E risk \in RiskLevels, soil \in SoilValues : CallGridRisk(risk, soil)

SpecGrid == InitGrid /\ [][NextGrid]_vars

\* the single thread always takes its next step: every call it makes returns
\* or raises (the requests carry timeouts, the sleep ends)
LiveSpec == Init /\ [][Next]_vars /\ WF_vars(Next)

\* ---------------------------------------------------------------- claims

AllFields == UserIds \X FieldIds

\* the fields prediction_loop hands to process_field
Evaluable == {uf \in AllFields : live_status[uf[1]][uf[2]].exists /\ live_status[uf[1]][uf[2]].hasenv}

\* the numerically latest timestamp of a non-empty bucket
Latest(bucket) ==
    CHOOSE t \in {TimestampInt(k) : k \in Keys(bucket)} :
        \A k \in Keys(bucket) : TimestampInt(k) <= t

\* C1: when a pass ends and the only exception of the pass was raised inside
\* process_field, every field that has env data was evaluated in that pass.
C1_FieldFailureDoesNotAbortPass ==
    (pc = "sleep" /\ pass_error = "field") => visited = Evaluable

\* C2: right after a completed archive step that read the clock as now: an empty bucket
\* received exactly one entry keyed by now; a bucket whose latest key T has
\* now - T < 1,500,000 is unchanged; otherwise exactly one entry keyed by now
\* was added.
C2_ArchiveThrottle ==
    pc = "pf_window" =>
        LET before == ev.hist0
            after == history[CurUser][CurField]
            key == TimestampStr(timestamp)
        IN IF before = {}
           THEN Cardinality(after) = 1 /\ Keys(after) = {key}
           ELSE IF timestamp - Latest(before) < 1500000
           THEN after = before
           ELSE /\ before \subseteq after
                /\ Cardinality(after \ before) = 1
                /\ Keys(after \ before) = {key}
                /\ key \notin Keys(before)

\* C2 witness: an entry was written exactly 1,500,000 ms after the latest one
C2_Witness ==
    /\ pc = "pf_window"
    /\ ev.hist0 # {}
    /\ timestamp - Latest(ev.hist0) = 1500000
    /\ TimestampStr(timestamp) \in Keys(history[CurUser][CurField])

C3_Spaced ==
    \A uf \in AllFields : \A a, b \in history[uf[1]][uf[2]] :
        a # b => \/ TimestampInt(a.key) - TimestampInt(b.key) >= 1500000
                 \/ TimestampInt(b.key) - TimestampInt(a.key) >= 1500000

C3_Ordered ==
    \A uf \in AllFields :
        history'[uf[1]][uf[2]] # history[uf[1]][uf[2]] =>
            \E e \in history'[uf[1]][uf[2]] :
                /\ history'[uf[1]][uf[2]] = history[uf[1]][uf[2]] \cup {e}
                /\ \A o \in history[uf[1]][uf[2]] :
                       TimestampInt(o.key) < TimestampInt(e.key)

\* C3: the entries of a bucket are pairwise at least 1,500,000 ms apart, and
\* every write adds one entry whose timestamp is greater than all present.
C3_ArchiveOrderedAndSpaced == [](C3_Spaced) /\ [][C3_Ordered]_vars

\* C3 witness: a bucket holds two entries
C3_Witness == \E uf \in AllFields : Cardinality(history[uf[1]][uf[2]]) >= 2

\* the historical-log entries among the last 47 that carry both temp and hum
ValidLogs(u, f) ==
    LET logs == historical_logs[u][f]
        from == IF Len(logs) > 47 THEN Len(logs) - 46 ELSE 1
    IN Cardinality({i \in from..Len(logs) : logs[i].temp # None /\ logs[i].hum # None})

InProcessField == pc \in {"pf_archive", "pf_window", "pf_solar", "pf_score"}

Returned == pc = "probes" /\ ev.out \in {"skipped", "scored"}

\* C4: an evaluation writes a Prediction Record only with 47 valid log entries
\* (a window of 48), and one that returns with such a window and a valid live
\* sample has written it; once the gate has seen a smaller window the
\* evaluation has returned no risk, raised nothing and left the record alone.
C4_WindowGate ==
    (InProcessField \/ pc = "probes") =>
        LET n == ValidLogs(CurUser, CurField)
            env_data == CurData.env
        IN /\ ev.out = "scored" => n + 1 = 48
           /\ (Returned /\ n + 1 = 48 /\ env_data.temp # None /\ env_data.hum # None)
                  => (ev.out = "scored" /\ farm_risk \in RiskLevels
                      /\ prediction[CurUser][CurField] # NoPrediction)
           /\ (ev.window # -1 /\ n + 1 < 48)
                  => /\ pc = "probes"
                     /\ ev.out = "skipped"
                     /\ farm_risk = NoRisk
                     /\ pass_error = "none"
                     /\ prediction[CurUser][CurField] = ev.pred0

\* C4 witness: 46 valid entries and the live sample, the evaluation returned
C4_Witness ==
    /\ pc = "probes"
    /\ ValidLogs(CurUser, CurField) = 46
    /\ ev.window = 47
    /\ ev.out = "skipped"

C5_Step == (pc = "probes" /\ ev.out = "skipped") => probe_prediction' = probe_prediction

\* C5: while the scheduler walks the probes of a field whose evaluation
\* returned no risk, no probe prediction is written or changed.
C5_SkippedScoringLeavesProbes == [][C5_Step]_vars

\* C5 witness: a probe with a numeric moisture was passed over after a skipped
\* scoring, its earlier prediction still in place
C5_Witness ==
    /\ pc = "probes"
    /\ ev.out = "skipped"
    /\ pi > 1
    /\ CurData.probes[pi - 1].isdict
    /\ CurData.probes[pi - 1].raw_moisture.t = "num"
    /\ probe_prediction[CurUser][CurField][pi - 1] = "WATCH"

Stored == {uf \in AllFields : prediction[uf[1]][uf[2]] # NoPrediction}

\* C6: every stored record has risk HIGH iff error > THRESHOLD, WATCH iff
\* THRESHOLD * 0.7 < error <= THRESHOLD, NORMAL otherwise, and the reason of
\* its tier.
C6_StrictClassification ==
    \A uf \in Stored :
        LET rec == prediction[uf[1]][uf[2]]
            e == rec.anomaly_score
        IN /\ rec.risk = "HIGH" <=> e > THRESHOLD
           /\ rec.risk = "WATCH" <=> (7 * THRESHOLD < 10 * e /\ e <= THRESHOLD)
           /\ rec.risk = "NORMAL" <=> 10 * e <= 7 * THRESHOLD
           /\ e = THRESHOLD => rec.risk = "WATCH"
           /\ 10 * e = 7 * THRESHOLD => rec.risk = "NORMAL"
           /\ rec.risk = "HIGH" => rec.reason = "High humidity and low solar drying"
           /\ rec.risk = "WATCH" => rec.reason = "Elevated risk parameters detected"
           /\ rec.risk = "NORMAL" => rec.reason = "Normal conditions"

\* C6 witness: a record whose error is exactly THRESHOLD
C6_Witness ==
    \E uf \in Stored :
        /\ prediction[uf[1]][uf[2]].anomaly_score = THRESHOLD
        /\ prediction[uf[1]][uf[2]].risk = "WATCH"

\* the transition table of the combiner: farm risk x soil category
CombinerTable ==
    [NORMAL |-> [DRY |-> "NORMAL", MODERATE |-> "NORMAL", WET |-> "NORMAL"],
     WATCH |-> [DRY |-> "NORMAL", MODERATE |-> "WATCH", WET |-> "WARNING"],
     WARNING |-> [DRY |-> "WATCH", MODERATE |-> "WARNING", WET |-> "HIGH"],
     HIGH |-> [DRY |-> "WARNING", MODERATE |-> "HIGH", WET |-> "HIGH"]]

MoistureCategory(m) ==
    CASE m < 300 -> "DRY"
      [] m >= 300 /\ m < 600 -> "MODERATE"
      [] m >= 600 -> "WET"

\* C7: every call grid_risk(r, m) returns the table entry of r and the
\* category of m, a member of the four risk levels.
C7_GridRiskTable ==
    call.fn = "grid_risk" =>
        /\ call.result = CombinerTable[call.farm_risk][MoistureCategory(call.soil)]
        /\ call.result \in RiskLevels

\* C7 witness: grid_risk("WARNING", 15.0) was called and returned WATCH
C7_Witness ==
    /\ call.fn = "grid_risk"
    /\ call.farm_risk = "WARNING"
    /\ call.soil = 150
    /\ call.result = "WATCH"

SameButLastUpdated(a, b) ==
    /\ a.risk = b.risk
    /\ a.anomaly_score = b.anomaly_score
    /\ a.confidence = b.confidence
    /\ a.reason = b.reason

\* this evaluation follows a scored one of the same field, reads the clock
\* within 1,500,000 ms of the bucket's latest entry and is scored on the same
\* features
C8_Rerun ==
    /\ pc = "probes"
    /\ ev.out = "scored"
    /\ ev.pred0 # NoPrediction
    /\ ev.hist0 # {}
    /\ ev.now - Latest(ev.hist0) < 1500000
    /\ last_features[CurUser][CurField] = ev.feat0

\* C8: such a rerun stores a record equal to the earlier one but for
\* lastUpdated and leaves the history bucket as it found it.
C8_Idempotent ==
    C8_Rerun =>
        /\ SameButLastUpdated(prediction[CurUser][CurField], ev.pred0)
        /\ history[CurUser][CurField] = ev.hist0

\* C8 witness: a rerun whose record differs from the earlier one in lastUpdated
C8_Witness ==
    /\ C8_Rerun
    /\ prediction[CurUser][CurField].lastUpdated # ev.pred0.lastUpdated

\* C9: a failed pass is caught, the loop sleeps, and the next pass starts.
C9_LoopSurvivesPassFailure ==
    /\ (pc = "except") ~> (pc = "sleep" /\ pass_error # "none")
    /\ (pc = "sleep") ~> (pc = "fetch_users")
    /\ []<>(pc = "fetch_users")

\* C9 witness: the users could not be enumerated and the loop is sleeping
C9_Witness == pc = "sleep" /\ pass_error = "other"

Complete(rec) ==
    /\ rec.risk \in {"NORMAL", "WATCH", "HIGH"}
    /\ rec.risk = (IF rec.anomaly_score > THRESHOLD THEN "HIGH"
                   ELSE IF 10 * rec.anomaly_score > 7 * THRESHOLD THEN "WATCH"
                   ELSE "NORMAL")
    /\ 2 * (rec.confidence * THRESHOLD - 100 * rec.anomaly_score) \in -THRESHOLD..THRESHOLD
    /\ rec.reason = (IF rec.risk = "HIGH" THEN "High humidity and low solar drying"
                     ELSE IF rec.risk = "WATCH" THEN "Elevated risk parameters detected"
                     ELSE "Normal conditions")
    /\ rec.lastUpdated >= 0

C10_Whole == \A uf \in Stored : Complete(prediction[uf[1]][uf[2]])

C10_Step ==
    prediction' # prediction =>
        /\ pc = "pf_score"
        /\ pc' = "probes"
        /\ ev'.out = "scored"
        /\ \A uf \in AllFields :
               uf # <<CurUser, CurField>> => prediction'[uf[1]][uf[2]] = prediction[uf[1]][uf[2]]
        /\ Complete(prediction'[CurUser][CurField])
        /\ prediction'[CurUser][CurField].lastUpdated = timestamp
        /\ prediction'[CurUser][CurField].risk = farm_risk'

\* C10: every stored record is complete, and the stored records change only
\* in the step that ends a successful evaluation, which replaces the field's
\* record by one complete record of that evaluation.
C10_AtomicRecord == [](C10_Whole) /\ [][C10_Step]_vars

\* C10 witness: a stored record was replaced by a different complete one
C10_Witness ==
    /\ pc = "probes"
    /\ ev.out = "scored"
    /\ ev.pred0 # NoPrediction
    /\ prediction[CurUser][CurField] # ev.pred0

FullWindow == ValidLogs(CurUser, CurField) + 1 = 48

\* C11: when the archive step of an evaluation with a full window has failed
\* (its read of the last entry or its write raised), the evaluation goes on:
\* once control is out of process_field, the field was scored and its
\* Prediction Record written in that cycle, and the pass saw no exception.
C11_ArchiveFailureNotFatal ==
    (ev.arch = "failed" /\ ~InProcessField /\ FullWindow) =>
        /\ ev.out = "scored"
        /\ pass_error = "none"
        /\ prediction[CurUser][CurField].lastUpdated = ev.now

\* C12: an evaluation whose archive write was skipped (the clock read less
\* than 1,500,000 ms after the bucket's latest entry) goes on to the window:
\* it is never back in the scheduler without a window built, and when it
\* returns with a full window it has scored and written the Prediction Record
\* of that evaluation, the bucket left as it was.
C12_SkippedArchiveStillScores ==
    ev.arch = "skipped" =>
        /\ ev.hist0 # {}
        /\ ev.now - Latest(ev.hist0) < 1500000
        /\ history[CurUser][CurField] = ev.hist0
        /\ pc = "probes" => ev.window # -1
        /\ (Returned /\ FullWindow) =>
               /\ ev.out = "scored"
               /\ ev.window = 48
               /\ farm_risk \in RiskLevels
               /\ prediction[CurUser][CurField].lastUpdated = ev.now
               /\ prediction[CurUser][CurField].risk = farm_risk

\* C12 witness: the archive write was skipped 1 ms short of the gap and the
\* evaluation wrote a record that differs from the field's earlier one
C12_Witness ==
    /\ pc = "probes"
    /\ ev.arch = "skipped"
    /\ ev.out = "scored"
    /\ ev.now - Latest(ev.hist0) = 1499999
    /\ prediction[CurUser][CurField] # ev.pred0

\* a probe whose raw_moisture is present and float() rejects
InvalidMoisture(probe_data) ==
    /\ probe_data.isdict
    /\ probe_data.raw_moisture # None
    /\ ~FloatOk(probe_data.raw_moisture)

C13_Unwritten ==
    \A uf \in AllFields :
        \A p \in DOMAIN live_status[uf[1]][uf[2]].probes :
            InvalidMoisture(live_status[uf[1]][uf[2]].probes[p])
                => probe_prediction[uf[1]][uf[2]][p] = NoRisk

C13_PassCompletes == (pc = "sleep" /\ pass_error = "none") => visited = Evaluable

C13_Step ==
    /\ (pc = "probes" /\ pi <= Len(CurData.probes) /\ InvalidMoisture(CurData.probes[pi]))
           => /\ pc' = "probes"
              /\ pi' = pi + 1
              /\ pass_error' = pass_error
              /\ farm_risk' = farm_risk
              /\ probe_prediction' = probe_prediction
    /\ (pc = "probes" /\ pc' # "probes")
           => pi > Len(CurData.probes) /\ pc' = "next_field" /\ fi' = fi + 1 /\ ui' = ui

\* C13: the prediction of a probe with a non-numeric raw_moisture is never
\* written; the step that meets such a probe raises nothing and moves to the
\* next probe with the farm risk kept; the probe loop ends only past the
\* field's last probe and hands over to the next field; a pass in which
\* nothing but probes failed has evaluated every field with env data.
C13_ProbeIsolation == [](C13_Unwritten /\ C13_PassCompletes) /\ [][C13_Step]_vars

\* C13 witness: the pass is over; u1/f1's first probe was invalid and stays
\* unwritten, its fourth probe and the probe of the later field u2/f1 were
\* written
C13_Witness ==
    /\ pc = "sleep"
    /\ pass_error = "none"
    /\ InvalidMoisture(live_status["u1"]["f1"].probes[1])
    /\ probe_prediction["u1"]["f1"][1] = NoRisk
    /\ probe_prediction["u1"]["f1"][4] \in RiskLevels
    /\ probe_prediction["u2"]["f1"][1] \in RiskLevels

\* the reply for the date i days back carries a value
GoodReply(replies, i) == replies[i + 1].ok /\ replies[i + 1].val # -999

\* C14: a call get_latest_solar(lat, lon) with both coordinates absent
\* returns 0.0 and queries nothing; every other call queries the service and
\* returns a value the service gave or 5.0.
C14_ZeroOnlyWhenBothAbsent ==
    call.fn = "get_latest_solar" =>
        IF call.lat = None /\ call.lon = None
        THEN call.result.val = 0 /\ call.result.dates = <<>>
        ELSE /\ call.result.dates # <<>>
             /\ \/ call.result.val = 5
                \/ \E i \in 0..4 : GoodReply(call.replies, i)
                                      /\ call.result.val = call.replies[i + 1].val

\* C16: a call with both coordinates present (and not zero) queries the
\* dates 0, 1, ... days back in that order, five at most; it returns the
\* value of the first reply that carries one, having queried no further; a
\* date whose query raised or gave -999.0 is followed by the next; with no
\* value in five replies it returns 5.0; it always returns.
C16_SolarRetry ==
    (call.fn = "get_latest_solar" /\ Truthy(call.lat) /\ Truthy(call.lon)) =>
        LET dates == call.result.dates
            n == Len(dates)
        IN /\ n \in 1..5
           /\ \A k \in 1..n : dates[k] = k - 1
           /\ \A k \in 1..(n - 1) : ~GoodReply(call.replies, dates[k])
           /\ IF GoodReply(call.replies, dates[n])
              THEN call.result.val = call.replies[n].val /\ call.result.val # -999
              ELSE n = 5 /\ call.result.val = 5

\* C16 witness: an error, then the sentinel, then a value: three queries
C16_Witness ==
    /\ call.fn = "get_latest_solar"
    /\ Truthy(call.lat) /\ Truthy(call.lon)
    /\ ~call.replies[1].ok
    /\ call.replies[2] = SolarReply(TRUE, -999)
    /\ call.replies[3] = SolarReply(TRUE, 3)
    /\ call.result = [val |-> 3, dates |-> <<0, 1, 2>>]

C15_Done ==
    pc = "ch_done" =>
        \A uf \in AllFields :
            history[uf[1]][uf[2]] =
                IF live_status[uf[1]][uf[2]].exists /\ call.before[uf[1]][uf[2]] # {}
                THEN {}
                ELSE call.before[uf[1]][uf[2]]

C15_Step ==
    /\ live_status' = live_status
    /\ historical_logs' = historical_logs
    /\ prediction' = prediction
    /\ probe_prediction' = probe_prediction
    /\ \A uf \in AllFields :
           history'[uf[1]][uf[2]] # history[uf[1]][uf[2]] =>
               /\ live_status[uf[1]][uf[2]].exists
               /\ history'[uf[1]][uf[2]] = {}

\* C15: when clean_history has run to its end, the root history bucket of
\* every field that had a live-status entry and a non-empty bucket is gone
\* and every other bucket is as it was; no step of the run changes
\* live_status, historical_logs or a prediction, or touches the bucket of a
\* field without a live-status entry.
C15_CleanHistoryFrame == [](C15_Done) /\ [][C15_Step]_vars

\* C15 witness: the run is over, the bucket of u1/f1 (live) was deleted, the
\* bucket of u2/f2 (no live-status entry) is still there
C15_Witness ==
    /\ pc = "ch_done"
    /\ live_status["u1"]["f1"].exists
    /\ call.before["u1"]["f1"] # {}
    /\ history["u1"]["f1"] = {}
    /\ ~live_status["u2"]["f2"].exists
    /\ Cardinality(history["u2"]["f2"]) = 2

C17_RecordFirst ==
    (pc = "probes" /\ ev.out = "scored") =>
        /\ farm_risk \in RiskLevels
        /\ prediction[CurUser][CurField].risk = farm_risk
        /\ prediction[CurUser][CurField].lastUpdated = ev.now

C17_Step ==
    probe_prediction' # probe_prediction =>
        /\ C17_RecordFirst
        /\ pc = "probes" /\ ev.out = "scored"
        /\ prediction' = prediction
        /\ \A uf \in AllFields : \A p \in DOMAIN probe_prediction[uf[1]][uf[2]] :
               <<uf, p>> # <<<<CurUser, CurField>>, pi>> =>
                   probe_prediction'[uf[1]][uf[2]][p] = probe_prediction[uf[1]][uf[2]][p]
        /\ probe_prediction'[CurUser][CurField][pi] =
               grid_risk(prediction[CurUser][CurField].risk,
                         Float(CurData.probes[pi].raw_moisture))

\* C17: while the probes of a scored field are walked, the field's Prediction
\* Record is already the one of this evaluation and carries the risk that
\* process_field returned; a probe prediction is written only then, one probe
\* at a time, and equals grid_risk of that risk and the probe's moisture.
C17_ProbesReuseFarmRisk == [](C17_RecordFirst) /\ [][C17_Step]_vars

\* C17 witness: the field was scored before with another risk; its probe now
\* carries the combination of this evaluation's risk
C17_Witness ==
    /\ pc = "probes"
    /\ ev.out = "scored"
    /\ pi = 2
    /\ ev.pred0 # NoPrediction
    /\ ev.pred0.risk # farm_risk
    /\ probe_prediction[CurUser][CurField][1] =
           grid_risk(farm_risk, Float(CurData.probes[1].raw_moisture))
    /\ probe_prediction[CurUser][CurField][1] #
           grid_risk(ev.pred0.risk, Float(CurData.probes[1].raw_moisture))

FarmRisks == {"NORMAL", "WATCH", "HIGH"}

C18_FarmRisk ==
    /\ farm_risk \in FarmRisks \cup {NoRisk}
    /\ (pc = "probes" /\ ev.out = "scored") => farm_risk \in FarmRisks
    /\ \A uf \in Stored : prediction[uf[1]][uf[2]].risk \in FarmRisks

C18_Step ==
    \A uf \in AllFields : \A p \in DOMAIN probe_prediction[uf[1]][uf[2]] :
        (/\ probe_prediction'[uf[1]][uf[2]][p] # probe_prediction[uf[1]][uf[2]][p]
         /\ probe_prediction'[uf[1]][uf[2]][p] = "HIGH")
            => /\ uf = <<CurUser, CurField>> /\ p = pi
               /\ farm_risk = "HIGH"
               /\ Float(CurData.probes[pi].raw_moisture) >= 300

\* C18: what process_field returns and stores as risk is NORMAL, WATCH or
\* HIGH (or nothing at all), never WARNING, so the scheduler never calls the
\* combiner with WARNING; a probe prediction becomes HIGH only in a step
\* whose farm risk is HIGH and whose moisture is 30 or more (not DRY).
C18_NoWarningFarmRisk == [](C18_FarmRisk) /\ [][C18_Step]_vars

\* C18 witness: farm risk HIGH, the dry probe got WARNING and the wet probe
\* HIGH
C18_Witness ==
    /\ pc = "probes"
    /\ farm_risk = "HIGH"
    /\ pi = 3
    /\ Float(CurData.probes[1].raw_moisture) < 300
    /\ probe_prediction[CurUser][CurField][1] = "WARNING"
    /\ probe_prediction[CurUser][CurField][2] = "HIGH"

C19_Step ==
    /\ live_status' = live_status
    /\ historical_logs' = historical_logs
    /\ \A uf \in AllFields :
           /\ history[uf[1]][uf[2]] \subseteq history'[uf[1]][uf[2]]
           /\ history'[uf[1]][uf[2]] # history[uf[1]][uf[2]] =>
                  /\ uf = <<CurUser, CurField>>
                  /\ Cardinality(history'[uf[1]][uf[2]] \ history[uf[1]][uf[2]]) = 1
                  /\ Keys(history'[uf[1]][uf[2]] \ history[uf[1]][uf[2]])
                         = {TimestampStr(timestamp')}
                  /\ TimestampStr(timestamp') \notin Keys(history[uf[1]][uf[2]])
           /\ prediction'[uf[1]][uf[2]] # prediction[uf[1]][uf[2]] => uf = <<CurUser, CurField>>
           /\ probe_prediction'[uf[1]][uf[2]] # probe_prediction[uf[1]][uf[2]]
                  => uf = <<CurUser, CurField>>

\* C19: no step of the scheduler changes live_status (the env samples, the
\* probes and their raw_moisture) or historical_logs; every archive entry
\* present before a step is present, unchanged, after it; a bucket changes
\* only by gaining one entry under a key it did not hold, that of the
\* evaluation's timestamp; records and probe predictions change only for the
\* field under evaluation.
C19_WritesConfined == [][C19_Step]_vars

\* C19 witness: all three kinds of write have happened to u1/f1, the archive
\* more than once
C19_Witness ==
    /\ Cardinality(history["u1"]["f1"]) = 2
    /\ prediction["u1"]["f1"] # NoPrediction
    /\ probe_prediction["u1"]["f1"][1] \in RiskLevels
    /\ live_status["u1"]["f1"].env.temp = Num(25)
    /\ live_status["u1"]["f1"].probes[1].raw_moisture = Num(450)

====
